---- MODULE Spec2Model ----
(***************************************************************************)
(* A model of helm-push (cmd/helmpush/main.go): the RunE dispatcher, the   *)
(* environment fallback of the flags (setFieldsFromEnv), the push flow,    *)
(* the cm:// download flow and the interpretation of the upload response.  *)
(*                                                                         *)
(* Go strings are TLC strings.  A string that the program takes apart (a   *)
(* command-line argument, a URL path) is a sequence of chunks, each chunk  *)
(* a string that is either the separator "/" or holds no separator; the    *)
(* string itself is the concatenation of its chunks (Flat).                *)
(***************************************************************************)
EXTENDS Integers, Sequences, FiniteSets, TLC

VARIABLES
    pc,         \* position of the single thread of control
    mode,       \* the flow RunE selected: "push" or "download"
    args,       \* positional arguments handed to RunE, each a chunk sequence
    parsed,     \* the pushCmd as newPushCmd left it (flag values)
    p,          \* the pushCmd
    env,        \* the process environment: name -> what os.LookupEnv returns
    registry,   \* helm's repository file: the record stored for "chartmuseum"
    repo,       \* local of push: the RepositoryRecord found
    chart,      \* local of push: the chart loaded
    client,     \* the chartmuseum client built by push or download
    tmp,        \* local of push: the temporary directory's path
    fs,         \* the directories that exist on disk
    deferred,   \* push's deferred calls: the paths os.RemoveAll is deferred on
    resp,       \* the upload response
    bodyRead,   \* whether the response body has been read
    parsedURL,  \* local of download: the URL after the path was cut
    filePath,   \* local of download: the file requested
    calls,      \* every call to a collaborator, in order
    requests,   \* every network request issued, in order
    out,        \* what was printed last on success
    err         \* what RunE returned

vars == <<pc, mode, args, parsed, p, env, registry, repo, chart, client, tmp, fs,
          deferred, resp, bodyRead, parsedURL, filePath, calls, requests, out, err>>

(***************************************************************************)
(* Bounds of the model.                                                    *)
(***************************************************************************)
\* longest generated URI, in chunks after the scheme
MaxURILen == 5
\* longest generated response body made of arbitrary tokens
MaxBodyLen == 3

(***************************************************************************)
(* Strings.                                                                *)
(***************************************************************************)
RECURSIVE Flat(_)
Flat(chunks) ==
    IF chunks = <<>> THEN "" ELSE Head(chunks) \o Flat(Tail(chunks))

SeqsUpTo(S, n) == UNION {[1..k -> S] : k \in 0..n}

\* strings.HasPrefix(arg, "cm://"): the scheme is a chunk of its own
HasPrefixCm(arg) == Len(arg) > 0 /\ arg[1] = "cm://"

\* strings.Split(s, "/") on a chunk sequence
RECURSIVE SplitFrom(_, _, _)
SplitFrom(chunks, i, cur) ==
    IF i > Len(chunks) THEN <<cur>>
    ELSE IF chunks[i] = "/" THEN <<cur>> \o SplitFrom(chunks, i + 1, "")
    ELSE SplitFrom(chunks, i + 1, cur \o chunks[i])

Split(chunks) == SplitFrom(chunks, 1, "")

\* strings.Join(parts, "/")
RECURSIVE Join(_)
Join(parts) ==
    IF parts = <<>> THEN ""
    ELSE IF Len(parts) = 1 THEN parts[1]
    ELSE parts[1] \o "/" \o Join(Tail(parts))

(***************************************************************************)
(* Errors: a Go error value is nil or carries a message.                   *)
(***************************************************************************)
Nil == [isErr |-> FALSE, msg |-> ""]
Error(m) == [isErr |-> TRUE, msg |-> m]

(***************************************************************************)
(* setFieldsFromEnv.                                                       *)
(***************************************************************************)
Unset == [ok |-> FALSE, v |-> ""]
Set(v) == [ok |-> TRUE, v |-> v]

EnvNames == {"HELM_REPO_USERNAME", "HELM_REPO_PASSWORD", "HELM_REPO_ACCESS_TOKEN",
             "HELM_REPO_CONTEXT_PATH", "HELM_REPO_USE_HTTP"}

\* os.LookupEnv
LookupEnv(e, name) == e[name]

\* strconv.ParseBool: the value and whether parsing failed
ParseBool(s) ==
    IF s \in {"1", "t", "T", "TRUE", "true", "True"} THEN [b |-> TRUE, err |-> FALSE]
    ELSE IF s \in {"0", "f", "F", "FALSE", "false", "False"} THEN [b |-> FALSE, err |-> FALSE]
    ELSE [b |-> FALSE, err |-> TRUE]

\* a faulty variant: the environment is consulted before the flag
StringFromEnv_EnvFirst(field, l) == IF l.ok THEN l.v ELSE field

\* one string field: the variable is used only when the field is empty
StringFromEnv(field, l) == IF l.ok /\ field = "" THEN l.v ELSE field

\* a faulty variant: the variable is a fallback, as for the string fields
BoolFromEnv_Fallback(field, l) == IF l.ok /\ ~field THEN ParseBool(l.v).b ELSE field

\* the boolean field: the variable, when set, decides
BoolFromEnv(field, l) == IF l.ok THEN ParseBool(l.v).b ELSE field

setFieldsFromEnv(q, e) ==
    [q EXCEPT
        !.username = StringFromEnv(q.username, LookupEnv(e, "HELM_REPO_USERNAME")),
        !.password = StringFromEnv(q.password, LookupEnv(e, "HELM_REPO_PASSWORD")),
        !.accessToken = StringFromEnv(q.accessToken, LookupEnv(e, "HELM_REPO_ACCESS_TOKEN")),
        !.contextPath = StringFromEnv(q.contextPath, LookupEnv(e, "HELM_REPO_CONTEXT_PATH")),
        !.useHTTP = BoolFromEnv(q.useHTTP, LookupEnv(e, "HELM_REPO_USE_HTTP"))]
(***************************************************************************)
(* The upload response.  A body is a sequence of JSON tokens written       *)
(* without white space; its text is the concatenation of the tokens' text. *)
(***************************************************************************)
StatusCreated == 201

Punct(s) == [t |-> "punct", s |-> s]
Str(s) == [t |-> "str", s |-> s]
Num == [t |-> "num", s |-> "5"]
Null == [t |-> "null", s |-> "null"]
Junk == [t |-> "junk", s |-> "not json"]

Raw(tok) == IF tok.t = "str" THEN "\"" \o tok.s \o "\"" ELSE tok.s

\* string(b): the text of a body
RECURSIVE RawBody(_)
RawBody(body) ==
    IF body = <<>> THEN "" ELSE Raw(Head(body)) \o RawBody(Tail(body))

IsScalar(tok) == tok.t \in {"str", "num", "null"}

\* the tokens between the braces are  key : value , key : value ...
IsMemberList(in) ==
    \/ in = <<>>
    \/ /\ Len(in) % 4 = 3
       /\ \A i \in 1..Len(in) :
            CASE i % 4 = 1 -> in[i].t = "str"
              [] i % 4 = 2 -> in[i] = Punct(":")
              [] i % 4 = 3 -> IsScalar(in[i])
              [] OTHER -> in[i] = Punct(",")

IsObject(body) ==
    /\ Len(body) >= 2
    /\ body[1] = Punct("{")
    /\ body[Len(body)] = Punct("}")
    /\ IsMemberList(SubSeq(body, 2, Len(body) - 1))

\* json.Unmarshal's syntax check (the bodies generated nest no value)
ValidJSON(body) == (Len(body) = 1 /\ IsScalar(body[1])) \/ IsObject(body)

\* encoding/json matches a key to the field tagged "error" whatever its case
KeyMatchesError(k) == k \in {"error", "Error", "ERROR"}

\* decoding member i and those after it into  struct { Error string }
RECURSIVE DecodeMembers(_, _, _)
DecodeMembers(in, i, er) ==
    IF i > Len(in) THEN er
    ELSE LET k == in[i].s
             v == in[i + 2]
             next == IF ~KeyMatchesError(k) \/ v.t = "null" THEN er
                     ELSE IF v.t = "str" THEN [er EXCEPT !.Error = v.s]
                     ELSE [er EXCEPT !.err = TRUE]
         IN DecodeMembers(in, i + 4, next)

\* json.Unmarshal(b, &er): the field decoded and whether an error was returned
Unmarshal(body) ==
    IF ~ValidJSON(body) THEN [Error |-> "", err |-> TRUE]
    ELSE IF IsObject(body)
        THEN DecodeMembers(SubSeq(body, 2, Len(body) - 1), 1, [Error |-> "", err |-> FALSE])
    ELSE IF body[1].t = "null" THEN [Error |-> "", err |-> FALSE]
    ELSE [Error |-> "", err |-> TRUE]

\* the error a failed read of the body returns
ErrBodyRead == Error("unexpected EOF")

\* a faulty variant: every 2xx status is a success
IsCreated_Any2xx(status) == status \in {200, 201}

IsCreated(status) == status = StatusCreated

\* a faulty variant: the body's text is left out of the message
ErrCouldNotParse_NoBody(status, raw) ==
    Error(ToString(status) \o ": could not properly parse response JSON: ")

ErrCouldNotParse(status, raw) ==
    Error(ToString(status) \o ": could not properly parse response JSON: " \o raw)

ErrServer(status, message) == Error(ToString(status) \o ": " \o message)

\* what handlePushResponse returns, whether it read the body, what it printed
handlePushResponse(r) ==
    IF ~IsCreated(r.StatusCode)
    THEN IF r.ReadErr
         THEN [err |-> ErrBodyRead, read |-> TRUE, out |-> ""]
         ELSE LET er == Unmarshal(r.Body)
              IN IF er.err \/ er.Error = ""
                 THEN [err |-> ErrCouldNotParse(r.StatusCode, RawBody(r.Body)),
                       read |-> TRUE, out |-> ""]
                 ELSE [err |-> ErrServer(r.StatusCode, er.Error), read |-> TRUE, out |-> ""]
    ELSE [err |-> Nil, read |-> FALSE, out |-> "Done."]

(***************************************************************************)
(* URLs.                                                                   *)
(***************************************************************************)
\* the index of the first "/" of a chunk sequence, or one past its end
RECURSIVE FirstSlash(_, _)
FirstSlash(chunks, i) ==
    IF i > Len(chunks) \/ chunks[i] = "/" THEN i ELSE FirstSlash(chunks, i + 1)

SchemeName(chunk) == IF chunk = "cm://" THEN "cm" ELSE "https"

\* url.Parse of  scheme://host/path : a "%zz" is an invalid escape
URLParse(u) ==
    LET rest == Tail(u)
        s == FirstSlash(rest, 1)
    IN IF \E i \in 1..Len(rest) : rest[i] = "%zz"
       THEN [err |-> Error("parse " \o Flat(u) \o ": invalid URL escape \"%zz\""),
             Scheme |-> "", Host |-> "", Path |-> <<>>]
       ELSE [err |-> Nil,
             Scheme |-> SchemeName(u[1]),
             Host |-> Flat(SubSeq(rest, 1, s - 1)),
             Path |-> SubSeq(rest, s, Len(rest))]

\* (*url.URL).String() of a URL with a scheme, a host and a path
URLString(u) ==
    u.Scheme \o ":" \o (IF u.Host # "" \/ u.Path # "" THEN "//" ELSE "") \o u.Host \o u.Path

(***************************************************************************)
(* Zero values of the program's records.                                   *)
(***************************************************************************)
ZeroCmd == [chartName |-> "", chartVersion |-> "", repoName |-> "", username |-> "",
            password |-> "", accessToken |-> "", contextPath |-> "", useHTTP |-> FALSE]
ZeroRepo == [URL |-> "", Username |-> "", Password |-> ""]
ZeroChart == [Name |-> "", Version |-> ""]
ZeroClient == [built |-> FALSE, URL |-> "", Username |-> "", Password |-> "",
               AccessToken |-> "", ContextPath |-> ""]
ZeroResp == [StatusCode |-> 0, Body |-> <<>>, ReadErr |-> FALSE]
ZeroURL == [Scheme |-> "", Host |-> "", Path |-> ""]

\* cm.NewClient with its five options
NewClient(url, username, password, accessToken, contextPath) ==
    [built |-> TRUE, URL |-> url, Username |-> username, Password |-> password,
     AccessToken |-> accessToken, ContextPath |-> contextPath]

(***************************************************************************)
(* The collaborators of the push flow.                                     *)
(***************************************************************************)
\* helm.GetRepoByName: the repository file holds one repository
GetRepoByName(reg, name) ==
    IF name = "chartmuseum" THEN [err |-> Nil, repo |-> reg]
    ELSE [err |-> Error("no repo named \"" \o name \o "\" found"), repo |-> ZeroRepo]

\* helm.GetChartByName: one chart directory exists
GetChartByName(name) ==
    IF name = "mychart" THEN [err |-> Nil, chart |-> [Name |-> "mychart", Version |-> "0.1.0"]]
    ELSE [err |-> Error("no chart found at \"" \o name \o "\""), chart |-> ZeroChart]

\* chart.SetVersion when a version was given
WithVersion(c, version) == IF version # "" THEN [c EXCEPT !.Version = version] ELSE c

\* the name ioutil.TempDir("", "helm-push-") picks
TempDirName == "/tmp/helm-push-1"

\* the path helm.CreateChartPackage writes
PackagePath(c, dir) == dir \o "/" \o c.Name \o "-" \o c.Version \o ".tgz"

(***************************************************************************)
(* Returning from RunE: the deferred calls run, then the result is handed  *)
(* to the caller.                                                          *)
(***************************************************************************)
\* a faulty variant: the removal is not deferred
Defer_Dropped(d, path) == d

\* defer os.RemoveAll(path)
Defer(d, path) == Append(d, path)

Range(s) == {s[i] : i \in 1..Len(s)}

Return(e, trace) ==
    /\ fs' = fs \ Range(deferred)
    /\ calls' = trace \o [i \in 1..Len(deferred) |-> "RemoveAll"]
    /\ deferred' = <<>>
    /\ err' = e
    /\ pc' = "exit"

(***************************************************************************)
(* RunE.                                                                   *)
(***************************************************************************)
\* a faulty variant: only too few arguments are refused
WrongArgCount_TooFew(a) == Len(a) < 2

WrongArgCount(a) == Len(a) # 2

IsDownload(a) == Len(a) = 4 /\ HasPrefixCm(a[4])

ErrNeedsTwoArgs ==
    Error("This command needs 2 arguments: name of chart, name of chart repository")

Dispatch ==
    /\ pc = "RunE"
    /\ IF IsDownload(args)
       THEN /\ mode' = "download"
            /\ pc' = "setFieldsFromEnv"
            /\ UNCHANGED <<p, fs, calls, deferred, err>>
       ELSE IF WrongArgCount(args)
       THEN /\ Return(ErrNeedsTwoArgs, calls)
            /\ UNCHANGED <<mode, p>>
       ELSE /\ mode' = "push"
            /\ p' = [p EXCEPT !.chartName = Flat(args[1]), !.repoName = Flat(args[2])]
            /\ pc' = "setFieldsFromEnv"
            /\ UNCHANGED <<fs, calls, deferred, err>>
    /\ UNCHANGED <<args, parsed, env, registry, repo, chart, client, tmp, resp, bodyRead,
                   parsedURL, filePath, requests, out>>

Resolve ==
    /\ pc = "setFieldsFromEnv"
    /\ p' = setFieldsFromEnv(p, env)
    /\ pc' = mode
    /\ UNCHANGED <<mode, args, parsed, env, registry, repo, chart, client, tmp, fs, deferred,
                   resp, bodyRead, parsedURL, filePath, calls, requests, out, err>>

(***************************************************************************)
(* push.                                                                   *)
(***************************************************************************)
\* a faulty variant: the stored credential is never used
Override_NoStored(stored, given) == given

\* the username/password override(s): a non-empty field of p replaces the stored value
Override(stored, given) == IF given # "" THEN given ELSE stored

\* a faulty variant: the upload's error is not checked
UploadFailed_Unchecked(e) == FALSE

\* if err != nil after client.UploadChartPackage
UploadFailed(e) == e.isErr

\* the responses the server is made to give in the whole-program specification
SomeBodies ==
    { <<>>, <<Junk>>,
      <<Punct("{"), Str("error"), Punct(":"), Str("conflict"), Punct("}")>>,
      <<Punct("{"), Str("error"), Punct(":"), Str(""), Punct("}")>> }

SomeResponses ==
    [StatusCode : {200, 201, 409}, Body : SomeBodies, ReadErr : BOOLEAN]

\* what client.UploadChartPackage can return: an error, or a response
UploadOutcomes ==
    {[err |-> Error("dial tcp: connection refused"), resp |-> ZeroResp]}
        \cup {[err |-> Nil, resp |-> r] : r \in SomeResponses}

PushGetRepo ==
    /\ pc = "push"
    /\ LET r == GetRepoByName(registry, p.repoName)
           trace == Append(calls, "GetRepoByName")
       IN IF r.err.isErr
          THEN Return(r.err, trace) /\ UNCHANGED repo
          ELSE /\ repo' = r.repo
               /\ calls' = trace
               /\ pc' = "GetChartByName"
               /\ UNCHANGED <<fs, deferred, err>>
    /\ UNCHANGED <<mode, args, parsed, p, env, registry, chart, client, tmp, resp, bodyRead,
                   parsedURL, filePath, requests, out>>

PushGetChart ==
    /\ pc = "GetChartByName"
    /\ LET c == GetChartByName(p.chartName)
           trace == Append(calls, "GetChartByName")
       IN IF c.err.isErr
          THEN Return(c.err, trace) /\ UNCHANGED chart
          ELSE /\ chart' = WithVersion(c.chart, p.chartVersion)
               /\ calls' = trace
               /\ pc' = "NewClient"
               /\ UNCHANGED <<fs, deferred, err>>
    /\ UNCHANGED <<mode, args, parsed, p, env, registry, repo, client, tmp, resp, bodyRead,
                   parsedURL, filePath, requests, out>>

PushNewClient ==
    /\ pc = "NewClient"
    /\ client' = NewClient(repo.URL,
                           Override(repo.Username, p.username),
                           Override(repo.Password, p.password),
                           p.accessToken, p.contextPath)
    /\ calls' = Append(calls, "NewClient")
    /\ pc' = "TempDir"
    /\ UNCHANGED <<mode, args, parsed, p, env, registry, repo, chart, tmp, fs, deferred, resp,
                   bodyRead, parsedURL, filePath, requests, out, err>>

PushTempDir ==
    /\ pc = "TempDir"
    /\ \E ok \in BOOLEAN :
         LET trace == Append(calls, "TempDir")
         IN IF ~ok
            THEN Return(Error("mkdir " \o TempDirName \o ": no space left on device"), trace)
                 /\ UNCHANGED tmp
            ELSE /\ tmp' = TempDirName
                 /\ fs' = fs \cup {TempDirName}
                 /\ deferred' = Defer(deferred, TempDirName)
                 /\ calls' = trace
                 /\ pc' = "CreateChartPackage"
                 /\ UNCHANGED err
    /\ UNCHANGED <<mode, args, parsed, p, env, registry, repo, chart, client, resp, bodyRead,
                   parsedURL, filePath, requests, out>>

PushCreatePackage ==
    /\ pc = "CreateChartPackage"
    /\ \E ok \in BOOLEAN :
         LET trace == Append(calls, "CreateChartPackage")
         IN IF ~ok
            THEN Return(Error("chart metadata (Chart.yaml) missing"), trace)
            ELSE /\ calls' = trace
                 /\ pc' = "UploadChartPackage"
                 /\ UNCHANGED <<fs, deferred, err>>
    /\ UNCHANGED <<mode, args, parsed, p, env, registry, repo, chart, client, tmp, resp,
                   bodyRead, parsedURL, filePath, requests, out>>

PushUpload ==
    /\ pc = "UploadChartPackage"
    /\ \E o \in UploadOutcomes :
         LET trace == Append(calls, "UploadChartPackage")
         IN /\ requests' = Append(requests,
                                  [kind |-> "upload",
                                   url |-> client.URL \o client.ContextPath,
                                   file |-> PackagePath(chart, tmp),
                                   answered |-> ~o.err.isErr])
            /\ IF UploadFailed(o.err)
               THEN Return(o.err, trace) /\ UNCHANGED resp
               ELSE /\ resp' = o.resp
                    /\ calls' = trace
                    /\ pc' = "handlePushResponse"
                    /\ UNCHANGED <<fs, deferred, err>>
    /\ UNCHANGED <<mode, args, parsed, p, env, registry, repo, chart, client, tmp, bodyRead,
                   parsedURL, filePath, out>>

PushHandleResponse ==
    /\ pc = "handlePushResponse"
    /\ LET r == handlePushResponse(resp)
       IN /\ bodyRead' = r.read
          /\ out' = r.out
          /\ Return(r.err, Append(calls, "handlePushResponse"))
    /\ UNCHANGED <<mode, args, parsed, p, env, registry, repo, chart, client, tmp, resp,
                   parsedURL, filePath, requests>>

(***************************************************************************)
(* download.                                                               *)
(***************************************************************************)
\* a faulty variant: a path needs a directory as well as a file name
TooFewParts_NeedsDir(numParts) == numParts <= 2

TooFewParts(numParts) == numParts <= 1

\* a faulty variant: the "charts" segment is kept in the base path
NumRemoveParts_AlwaysOne(parts) == 1

NumRemoveParts(parts) == IF parts[Len(parts) - 1] = "charts" THEN 2 ELSE 1

FilePath(parts) ==
    IF parts[Len(parts) - 1] = "charts"
    THEN "charts/" \o parts[Len(parts)]
    ELSE parts[Len(parts)]

ErrInvalidFileURL(fileURL) == Error("invalid file url: " \o Flat(fileURL))

DownloadParse ==
    /\ pc = "download"
    /\ LET fileURL == args[4]
           u == URLParse(fileURL)
           parts == Split(u.Path)
           numParts == Len(parts)
       IN IF u.err.isErr
          THEN Return(u.err, calls) /\ UNCHANGED <<parsedURL, filePath>>
          ELSE IF TooFewParts(numParts)
          THEN Return(ErrInvalidFileURL(fileURL), calls) /\ UNCHANGED <<parsedURL, filePath>>
          ELSE /\ filePath' = FilePath(parts)
               /\ parsedURL' = [Scheme |-> u.Scheme, Host |-> u.Host,
                                Path |-> Join(SubSeq(parts, 1, numParts - NumRemoveParts(parts)))]
               /\ pc' = "downloadClient"
               /\ UNCHANGED <<fs, deferred, calls, err>>
    /\ UNCHANGED <<mode, args, parsed, p, env, registry, repo, chart, client, tmp, resp,
                   bodyRead, requests, out>>

SchemeFor(useHTTP) == IF useHTTP THEN "http" ELSE "https"

DownloadNewClient ==
    /\ pc = "downloadClient"
    /\ parsedURL' = [parsedURL EXCEPT !.Scheme = SchemeFor(p.useHTTP)]
    /\ client' = NewClient(URLString(parsedURL'), p.username, p.password,
                           p.accessToken, p.contextPath)
    /\ calls' = Append(calls, "NewClient")
    /\ pc' = "DownloadFile"
    /\ UNCHANGED <<mode, args, parsed, p, env, registry, repo, chart, tmp, fs, deferred, resp,
                   bodyRead, filePath, requests, out, err>>

DownloadFile ==
    /\ pc = "DownloadFile"
    /\ \E ok \in BOOLEAN :
         /\ requests' = Append(requests,
                               [kind |-> "download",
                                url |-> client.URL \o client.ContextPath,
                                file |-> filePath,
                                answered |-> ok])
         /\ out' = IF ok THEN "contents of " \o filePath ELSE out
         /\ Return(IF ok THEN Nil ELSE Error("404 Not Found"),
                   Append(calls, "DownloadFile"))
    /\ UNCHANGED <<mode, args, parsed, p, env, registry, repo, chart, client, tmp, resp,
                   bodyRead, parsedURL, filePath>>

(***************************************************************************)
(* The whole program: one invocation of the plugin.                        *)
(***************************************************************************)
Arg(s) == IF s = "" THEN <<>> ELSE <<s>>

\* the URIs of the documentation's examples
ExampleURIs ==
    { <<"cm://", "host", "/", "a", "/", "b", "/", "charts", "/", "foo-1.0.0.tgz">>,
      <<"cm://", "host", "/", "a", "/", "b", "/", "foo-1.0.0.tgz">>,
      <<"cm://", "host", "/", "foo.tgz">>,
      <<"cm://", "host">>,
      <<"cm://", "%zz", "/", "foo.tgz">> }

Invocations ==
    {<<Arg(c), Arg(r)>> : c \in {"", "mychart", "nochart"}, r \in {"", "chartmuseum", "norepo"}}
        \cup { <<>>, <<Arg("mychart")>>,
               <<Arg("mychart"), Arg("chartmuseum"), Arg("extra")>>,
               <<Arg("cert"), Arg("key"), Arg("ca"), <<"https://", "host", "/", "foo.tgz">> >> }
        \cup {<<Arg(""), Arg(""), Arg(""), u>> : u \in ExampleURIs}

\* what the flags of newPushCmd can leave in the pushCmd
FlagValues ==
    {[ZeroCmd EXCEPT !.chartVersion = v, !.username = u, !.password = w] :
        v \in {"", "9.9.9"}, u \in {"", "flag-user"}, w \in {"", "flag-pass"}}

Envs ==
    {[n \in EnvNames |->
        CASE n = "HELM_REPO_USERNAME" -> u
          [] n = "HELM_REPO_PASSWORD" -> w
          [] n = "HELM_REPO_ACCESS_TOKEN" -> t
          [] n = "HELM_REPO_CONTEXT_PATH" -> Unset
          [] OTHER -> h] :
        u \in {Unset, Set(""), Set("env-user")},
        w \in {Unset, Set(""), Set("env-pass")},
        t \in {Unset, Set("env-token")},
        h \in {Unset, Set("true")}}

Registries ==
    [URL : {"https://charts.example.com"}, Username : {"", "repo-user"},
     Password : {"", "repo-pass"}]

InitLocals ==
    /\ repo = ZeroRepo
    /\ chart = ZeroChart
    /\ client = ZeroClient
    /\ tmp = ""
    /\ fs = {}
    /\ deferred = <<>>
    /\ bodyRead = FALSE
    /\ parsedURL = ZeroURL
    /\ filePath = ""
    /\ calls = <<>>
    /\ requests = <<>>
    /\ out = ""
    /\ err = Nil

Init ==
    /\ pc = "RunE"
    /\ args \in Invocations
    /\ parsed \in FlagValues
    /\ p = parsed
    /\ env \in Envs
    /\ registry \in Registries
    /\ resp = ZeroResp
    /\ mode = ""
    /\ InitLocals

Next ==
    \/ Dispatch
    \/ Resolve
    \/ PushGetRepo
    \/ PushGetChart
    \/ PushNewClient
    \/ PushTempDir
    \/ PushCreatePackage
    \/ PushUpload
    \/ PushHandleResponse
    \/ DownloadParse
    \/ DownloadNewClient
    \/ DownloadFile

Spec == Init /\ [][Next]_vars

(***************************************************************************)
(* setFieldsFromEnv alone, for every receiver and environment.  No flag    *)
(* sets useHTTP, so the whole program calls it with useHTTP = FALSE only;  *)
(* here the method is entered with either value.                           *)
(***************************************************************************)
Receivers ==
    {[ZeroCmd EXCEPT !.username = u, !.password = w, !.accessToken = t,
                     !.contextPath = c, !.useHTTP = h] :
        u \in {"", "flag-user"}, w \in {"", "flag-pass"}, t \in {"", "flag-token"},
        c \in {"", "/flag"}, h \in BOOLEAN}

AllEnvs ==
    {[n \in EnvNames |->
        CASE n = "HELM_REPO_USERNAME" -> u
          [] n = "HELM_REPO_PASSWORD" -> w
          [] n = "HELM_REPO_ACCESS_TOKEN" -> t
          [] n = "HELM_REPO_CONTEXT_PATH" -> c
          [] OTHER -> h] :
        u \in {Unset, Set(""), Set("env-user")},
        w \in {Unset, Set(""), Set("env-pass")},
        t \in {Unset, Set(""), Set("env-token")},
        c \in {Unset, Set(""), Set("/env")},
        h \in {Unset, Set("true"), Set("1"), Set("false"), Set("0"), Set("yes"), Set("")}}

InitResolve ==
    /\ pc = "setFieldsFromEnv"
    /\ args = <<>>
    /\ parsed \in Receivers
    /\ p = parsed
    /\ env \in AllEnvs
    /\ registry = ZeroRepo
    /\ resp = ZeroResp
    /\ mode \in {"push", "download"}
    /\ InitLocals

NextResolve == Resolve

SpecResolve == InitResolve /\ [][NextResolve]_vars

(***************************************************************************)
(* The download flow, for every URI of a few chunks.                       *)
(***************************************************************************)
URIChunks == {"/", "charts", "a", "%zz"}

URIs == {<<"cm://">> \o s : s \in SeqsUpTo(URIChunks, MaxURILen)} \cup ExampleURIs

InitDownload ==
    /\ pc = "RunE"
    /\ args \in {<<Arg(""), Arg(""), Arg(""), u>> : u \in URIs}
    /\ parsed = ZeroCmd
    /\ p = parsed
    /\ env \in {[n \in EnvNames |-> IF n = "HELM_REPO_USE_HTTP" THEN h ELSE Unset] :
                    h \in {Unset, Set("true")}}
    /\ registry = ZeroRepo
    /\ resp = ZeroResp
    /\ mode = ""
    /\ InitLocals

NextDownload ==
    \/ Dispatch
    \/ Resolve
    \/ DownloadParse
    \/ DownloadNewClient
    \/ DownloadFile

SpecDownload == InitDownload /\ [][NextDownload]_vars

(***************************************************************************)
(* handlePushResponse alone, for every response of a few tokens.           *)
(***************************************************************************)
BodyTokens ==
    {Punct("{"), Punct("}"), Punct(":"), Punct(","),
     Str("error"), Str("Error"), Str("conflict"), Str(""), Num, Null, Junk}

Member(k, v) == <<Str(k), Punct(":"), v>>

Members == {Member(k, v) : k \in {"error", "Error", "conflict"},
                           v \in {Str("conflict"), Str(""), Num, Null}}

Bodies ==
    SeqsUpTo(BodyTokens, MaxBodyLen)
        \cup {<<Punct("{")>> \o m \o <<Punct("}")>> : m \in Members}
        \cup {<<Punct("{")>> \o m \o <<Punct(",")>> \o n \o <<Punct("}")>> :
                m \in Members, n \in Members}

Responses == [StatusCode : {200, 201, 409, 500}, Body : Bodies, ReadErr : BOOLEAN]

InitResponse ==
    /\ pc = "handlePushResponse"
    /\ args = <<>>
    /\ parsed = ZeroCmd
    /\ p = parsed
    /\ env = [n \in EnvNames |-> Unset]
    /\ registry = ZeroRepo
    /\ resp \in Responses
    /\ mode = "push"
    /\ InitLocals

NextResponse == PushHandleResponse

SpecResponse == InitResponse /\ [][NextResponse]_vars

(***************************************************************************)
(* Properties of the download flow (SpecDownload).                         *)
(***************************************************************************)
\* the path of the URI given to download, and its segments
GivenURL == URLParse(args[4])
Segments == Split(GivenURL.Path)

\* download has got past the derivation of the file path
Derived == pc \in {"downloadClient", "DownloadFile"} \/ (pc = "exit" /\ client.built)

\* download has returned or got past the derivation
PastParse == pc \in {"downloadClient", "DownloadFile", "exit"}

\* C1: for a URI whose path splits on "/" into n >= 2 segments, the file path is
\* "charts/" + s[n-1] and the base path s[0..n-3] when s[n-2] is "charts", and
\* else s[n-1] and s[0..n-2]; so for the two example URIs.
C1_DownloadTarget ==
    /\ (PastParse /\ ~GivenURL.err.isErr /\ Len(Segments) >= 2) =>
         LET s == Segments
             n == Len(s)
         IN /\ Derived
            /\ IF s[n - 1] = "charts"
               THEN /\ filePath = "charts/" \o s[n]
                    /\ parsedURL.Path = Join(SubSeq(s, 1, n - 2))
               ELSE /\ filePath = s[n]
                    /\ parsedURL.Path = Join(SubSeq(s, 1, n - 1))
    /\ (PastParse /\ Flat(args[4]) = "cm://host/a/b/charts/foo-1.0.0.tgz") =>
         filePath = "charts/foo-1.0.0.tgz" /\ parsedURL.Path = "/a/b"
    /\ (PastParse /\ Flat(args[4]) = "cm://host/a/b/foo-1.0.0.tgz") =>
         filePath = "foo-1.0.0.tgz" /\ parsedURL.Path = "/a/b"

C1_Witness ==
    /\ pc = "exit"
    /\ Flat(args[4]) = "cm://host/a/b/charts/foo-1.0.0.tgz"
    /\ Len(requests) = 1
    /\ requests[1].file = "charts/foo-1.0.0.tgz"
    /\ parsedURL.Path = "/a/b"

\* the URI parses and its path is one "/" followed by one name
OnePathSegment ==
    /\ ~GivenURL.err.isErr
    /\ Len(GivenURL.Path) >= 2
    /\ GivenURL.Path[1] = "/"
    /\ \A i \in 2..Len(GivenURL.Path) : GivenURL.Path[i] # "/"

\* C2 as stated: a URI with only one path segment (cm://host/foo.tgz) fails with
\* InvalidURI, no client is built and no request is issued.
C2_OneSegmentRejected ==
    (PastParse /\ OnePathSegment) =>
        /\ ~client.built
        /\ requests = <<>>
        /\ pc = "exit" => err = ErrInvalidFileURL(args[4])

\* C2 amended: a URI whose path holds no "/" (the split gives fewer than 2 parts,
\* as for cm://host) fails with InvalidURI, no client is built and no request is
\* issued; a URI with one path segment splits into "" and the name and is accepted:
\* the name is requested, under an empty base path.
C2_NoSlashRejected ==
    /\ (PastParse /\ ~GivenURL.err.isErr /\ Len(Segments) < 2) =>
         /\ pc = "exit"
         /\ err = ErrInvalidFileURL(args[4])
         /\ ~client.built
         /\ requests = <<>>
    /\ (pc = "exit" /\ OnePathSegment) =>
         /\ client.built
         /\ Len(requests) = 1
         /\ requests[1].file = Flat(Tail(GivenURL.Path))
         /\ parsedURL.Path = ""

C2_Witness ==
    /\ pc = "exit"
    /\ Flat(args[4]) = "cm://host"
    /\ err = Error("invalid file url: cm://host")
    /\ ~client.built
    /\ requests = <<>>

(***************************************************************************)
(* Properties of setFieldsFromEnv (SpecResolve).                           *)
(***************************************************************************)
Resolved == pc \in {"push", "download"}

EnvVarOf ==
    [username |-> "HELM_REPO_USERNAME", password |-> "HELM_REPO_PASSWORD",
     accessToken |-> "HELM_REPO_ACCESS_TOKEN", contextPath |-> "HELM_REPO_CONTEXT_PATH"]

\* C3: for username, password, accessToken and contextPath, after setFieldsFromEnv a
\* non-empty explicit value is kept whatever the environment holds, an empty one is
\* replaced by the variable's value when the variable is present, and the field
\* stays empty when neither is supplied.
C3_StringPrecedence ==
    Resolved =>
        \A f \in DOMAIN EnvVarOf :
            LET l == env[EnvVarOf[f]]
            IN /\ parsed[f] # "" => p[f] = parsed[f]
               /\ (parsed[f] = "" /\ l.ok) => p[f] = l.v
               /\ (parsed[f] = "" /\ ~l.ok) => p[f] = ""

C3_Witness ==
    /\ Resolved
    /\ parsed.username = "flag-user" /\ env["HELM_REPO_USERNAME"] = Set("env-user")
    /\ p.username = "flag-user"
    /\ parsed.password = "" /\ env["HELM_REPO_PASSWORD"] = Set("env-pass")
    /\ p.password = "env-pass"
    /\ parsed.accessToken = "" /\ env["HELM_REPO_ACCESS_TOKEN"] = Unset
    /\ p.accessToken = ""

Truthy == {"1", "t", "T", "TRUE", "true", "True"}
Falsy == {"0", "f", "F", "FALSE", "false", "False"}

\* C4: after setFieldsFromEnv, useHTTP is the parsed value of HELM_REPO_USE_HTTP when
\* the variable is present and a boolean, whatever the field held; false when the
\* variable is present and malformed; and its prior value when the variable is absent.
C4_BoolFromEnvironment ==
    Resolved =>
        LET l == env["HELM_REPO_USE_HTTP"]
        IN /\ (l.ok /\ l.v \in Truthy) => p.useHTTP = TRUE
           /\ (l.ok /\ l.v \in Falsy) => p.useHTTP = FALSE
           /\ (l.ok /\ l.v \notin Truthy \cup Falsy) => p.useHTTP = FALSE
           /\ ~l.ok => p.useHTTP = parsed.useHTTP

C4_Witness ==
    /\ Resolved
    /\ parsed.useHTTP = TRUE
    /\ env["HELM_REPO_USE_HTTP"] = Set("false")
    /\ p.useHTTP = FALSE

(***************************************************************************)
(* Properties of handlePushResponse (SpecResponse).                        *)
(***************************************************************************)
Interpreted == pc = "exit" /\ calls # <<>> /\ calls[Len(calls)] = "handlePushResponse"

\* the positions of the keys of an object's members whose name is "error" in any case
NamedError(body) ==
    {i \in 2..(Len(body) - 3) : i % 4 = 2 /\ body[i].s \in {"error", "Error", "ERROR"}}

\* the body read is not JSON, or is JSON without a member "error", or with an empty one
NoErrorField(body) ==
    \/ ~ValidJSON(body)
    \/ ~IsObject(body)
    \/ \A i \in 2..(Len(body) - 3) :
         (i % 4 = 2 /\ body[i].s = "error") => body[i + 2] = Str("")

\* the body read is not JSON, or is JSON in which no member named "error", in any
\* letter case, holds a non-empty string
NoErrorMessage(body) ==
    \/ ~ValidJSON(body)
    \/ ~IsObject(body)
    \/ \A i \in NamedError(body) : body[i + 2].t # "str" \/ body[i + 2].s = ""

\* C5 as stated: a response other than 201 whose body is not JSON, or has an empty
\* or absent "error" field, gives ServerError{statusCode, rawBody}: the message is
\* the raw body verbatim, as in ServerError{500, "not json"}.
C5_RawBodyIsMessage ==
    (Interpreted /\ resp.StatusCode # 201 /\ ~resp.ReadErr /\ NoErrorField(resp.Body)) =>
        err = ErrServer(resp.StatusCode, RawBody(resp.Body))

\* C5 amended: a response other than 201 whose body was read and is not JSON, or
\* holds no non-empty string under a member named "error" (in any letter case),
\* fails with the status code and a message that is the fixed text "could not
\* properly parse response JSON: " followed by the raw body verbatim.
C5_RawBodyInMessage ==
    (Interpreted /\ resp.StatusCode # 201 /\ ~resp.ReadErr /\ NoErrorMessage(resp.Body)) =>
        /\ bodyRead
        /\ err.isErr
        /\ err.msg = ToString(resp.StatusCode)
                        \o ": could not properly parse response JSON: "
                        \o RawBody(resp.Body)

C5_Witness ==
    /\ Interpreted
    /\ resp.StatusCode = 500
    /\ resp.Body = <<Junk>>
    /\ ~resp.ReadErr
    /\ err.msg = "500: could not properly parse response JSON: not json"

Called(name) == \E i \in 1..Len(calls) : calls[i] = name

\* C7: once the temporary directory has been created, it no longer exists when push
\* has returned, whatever made it return.
C7_TempDirRemoved ==
    (pc = "exit" /\ Called("TempDir")) => (tmp \notin fs /\ fs = {})

C7_Witness ==
    /\ pc = "exit"
    /\ tmp = TempDirName
    /\ Called("CreateChartPackage")
    /\ ~Called("UploadChartPackage")
    /\ err.isErr
    /\ fs = {}

\* the invocation is not the download form and a name is missing or empty
NameMissingOrEmpty ==
    /\ ~IsDownload(args)
    /\ (Len(args) < 2 \/ args[1] = <<>> \/ args[2] = <<>>)

\* C8 as stated: when chartName or repositoryName is missing or empty, the invocation
\* fails with InvalidArguments before any lookup, packaging or upload.
C8_EmptyNameRejected ==
    NameMissingOrEmpty =>
        /\ calls = <<>>
        /\ pc = "exit" => err = ErrNeedsTwoArgs

\* C8 amended: when the number of arguments is not two (and the invocation is not the
\* download form), the invocation fails with InvalidArguments before any lookup,
\* packaging or upload; two arguments are accepted even when one is the empty
\* string, and the flow goes on to the repository lookup.
C8_ArgCountRejected ==
    /\ (~IsDownload(args) /\ Len(args) # 2) =>
         /\ calls = <<>>
         /\ requests = <<>>
         /\ fs = {}
         /\ pc \in {"RunE", "exit"}
         /\ pc = "exit" => err = ErrNeedsTwoArgs
    /\ (Len(args) = 2 /\ pc = "exit") =>
         /\ Called("GetRepoByName")
         /\ err # ErrNeedsTwoArgs

C8_Witness ==
    /\ pc = "exit"
    /\ Len(args) = 1
    /\ err = ErrNeedsTwoArgs
    /\ calls = <<>>

\* flag, else environment when present and non-empty, else the stored value
Effective(flag, l, stored) ==
    IF flag # "" THEN flag ELSE IF l.ok /\ l.v # "" THEN l.v ELSE stored

\* C9: the username and the password of push's client are each the flag's value if
\* non-empty, else the environment variable's if present and non-empty, else the
\* RepositoryRecord's; the client's URL is the RepositoryRecord's.
C9_CredentialPrecedence ==
    (mode = "push" /\ client.built) =>
        /\ client.Username =
              Effective(parsed.username, env["HELM_REPO_USERNAME"], registry.Username)
        /\ client.Password =
              Effective(parsed.password, env["HELM_REPO_PASSWORD"], registry.Password)
        /\ client.URL = registry.URL

C9_Witness ==
    /\ mode = "push" /\ client.built
    /\ parsed.username = "" /\ env["HELM_REPO_USERNAME"] = Set("")
    /\ registry.Username = "repo-user" /\ client.Username = "repo-user"
    /\ parsed.password = "" /\ env["HELM_REPO_PASSWORD"] = Set("env-pass")
    /\ registry.Password = "repo-pass" /\ client.Password = "env-pass"

PushOrder ==
    <<"GetRepoByName", "GetChartByName", "NewClient", "TempDir", "CreateChartPackage",
      "UploadChartPackage", "handlePushResponse">>

IsPrefix(s, t) == Len(s) <= Len(t) /\ \A i \in 1..Len(s) : s[i] = t[i]

\* the calls made, the removals of the temporary directory left out
RECURSIVE Steps(_)
Steps(s) ==
    IF s = <<>> THEN <<>>
    ELSE IF Head(s) = "RemoveAll" THEN Steps(Tail(s))
    ELSE <<Head(s)>> \o Steps(Tail(s))

\* C10: an invocation issues at most one request; push makes its calls in the order
\* repository lookup, chart lookup, temporary directory, packaging, upload, so that a
\* return before the upload has sent nothing; a failed request is not repeated; and
\* the response is interpreted only when the upload was answered.
C10_SingleRequestInOrder ==
    /\ Len(requests) <= 1
    /\ mode = "push" =>
         /\ IsPrefix(Steps(calls), PushOrder)
         /\ Len(requests) = (IF Called("UploadChartPackage") THEN 1 ELSE 0)
         /\ Called("handlePushResponse") => requests[1].answered
         /\ (requests # <<>> /\ ~requests[1].answered) =>
               (pc = "exit" /\ err.isErr /\ ~Called("handlePushResponse"))
    /\ mode = "download" =>
         Len(requests) = (IF Called("DownloadFile") THEN 1 ELSE 0)

C10_Witness ==
    /\ pc = "exit"
    /\ mode = "push"
    /\ Len(requests) = 1
    /\ ~requests[1].answered
    /\ err.isErr
    /\ Steps(calls) = SubSeq(PushOrder, 1, 6)

====
